---- MODULE Spec2Model ----
(***************************************************************************)
(* A model of the two scripts of the repository:                           *)
(*   hybrid_search_agent.py  - vector-index ingestion and search, the      *)
(*                             tool-dispatching chat loop and its REPL;    *)
(*   agentic_sales_email.py  - the Sales Manager / Email Manager agents    *)
(*                             and the send_html_email tool.               *)
(* The hosted services (the completion endpoint, the agent runtime's       *)
(* language model, the mail endpoint) are the environment: what they       *)
(* answer is chosen nondeterministically from small sets.                  *)
(***************************************************************************)
EXTENDS Integers, Sequences, FiniteSets, TLC

\* ------------------------------------------------------------------ bounds
MaxColl == 3        \* documents the collection may hold
MaxDocs == 2        \* documents of one ingest call
MaxText == 2        \* document texts and search queries are 0..MaxText
MaxTopK == 3        \* largest top_k a search call passes
MaxLines == 2       \* lines the REPL reads in one run
MaxResponses == 3   \* completions one chat call receives
MaxCalls == 2       \* tool calls the model requests during one chat call
MaxSteps == 6       \* tool invocations of one agent run

\* ------------------------------------------------------- program constants
DefaultTopK == 5    \* internal_search_tool's default top_k

VARIABLES
    \* hybrid_search_agent.py
    pc,             \* position of the script / of the index driver
    apiKey,         \* OPENAI_API_KEY is set
    clientCreated,  \* client = OpenAI() has run
    collection,     \* the Chroma collection: a sequence of document records
    uuidCtr,        \* identifiers handed out so far by uuid.uuid4()
    op,             \* the last index operation and its arguments
    hits,           \* the last value internal_search_tool returned
    history,        \* chat's history list
    msg,            \* response.choices[0].message of the last completion
    callIdx,        \* position of chat's for-loop in msg.tool_calls
    answer,         \* the value chat returned last
    exc,            \* the exception that ended the process, or "none"
    requests,       \* completion requests made by the running chat call
    queries,        \* collection.query calls made by the running chat call
    chatCalls,      \* calls of chat
    linesRead,      \* lines input() has returned
    line,           \* the last line input() returned, as typed
    \* agentic_sales_email.py
    agent,          \* the agent the runner is executing
    drafts,         \* draft tools that have produced a body
    handedOff,      \* the Sales Manager handed off to the Email Manager
    subjects,       \* subject_writer calls
    htmls,          \* html_converter calls
    sendCalls,      \* send_html_email calls
    posts,          \* posts to the mail-send endpoint
    outcome,        \* how the last send_html_email call went
    sendResult,     \* the last value send_html_email returned
    mail,           \* the last request body posted
    steps           \* tool invocations so far

indexVars == <<collection, uuidCtr, op, hits>>
chatVars == <<pc, apiKey, clientCreated, history, msg, callIdx, answer, exc,
              requests, queries, chatCalls, linesRead, line>>
emailVars == <<agent, drafts, handedOff, subjects, htmls, sendCalls, posts,
               outcome, sendResult, mail, steps>>
vars == <<pc, apiKey, clientCreated, collection, uuidCtr, op, hits, history,
          msg, callIdx, answer, exc, requests, queries, chatCalls, linesRead,
          line, agent, drafts, handedOff, subjects, htmls, sendCalls,
          posts, outcome, sendResult, mail, steps>>

\* ------------------------------------------------------------------ helpers
Min(a, b) == IF a <= b THEN a ELSE b

Range(s) == {s[i] : i \in 1..Len(s)}

SeqsUpTo(S, n) == UNION {[1..k -> S] : k \in 0..n}

Texts == 0..MaxText

\* ------------------------------------------------------ the vector index
\* The distance the index ranks by. Chroma embeds both texts and measures the
\* embeddings; here texts are points of 0..MaxText and the distance is metric.
Distance(query, text) == IF query >= text THEN query - text ELSE text - query

\* Positions of coll ordered by ascending distance to query (insertion order
\* among equals): what collection.query ranks by.
RECURSIVE Nearest(_, _, _)
Nearest(coll, query, left) ==
    IF left = {} THEN <<>>
    ELSE LET best == CHOOSE i \in left : \A j \in left :
                        \/ Distance(query, coll[i].text) < Distance(query, coll[j].text)
                        \/ /\ Distance(query, coll[i].text) = Distance(query, coll[j].text)
                           /\ i <= j
         IN <<best>> \o Nearest(coll, query, left \ {best})

\* collection.query(query_texts=[query], n_results=n): the n nearest documents
\* (all of them when the collection holds fewer), as parallel lists.
CollectionQuery(coll, query, n) ==
    LET order == SubSeq(Nearest(coll, query, 1..Len(coll)), 1, Min(n, Len(coll)))
    IN [ids       |-> [i \in 1..Len(order) |-> coll[order[i]].id],
        documents |-> [i \in 1..Len(order) |-> coll[order[i]].text],
        distances |-> [i \in 1..Len(order) |-> Distance(query, coll[order[i]].text)]]

\* collection.add: a batch that repeats an identifier is refused whole; a
\* document whose identifier the collection already holds is not added again.
CollectionAdd(coll, documents, ids, metadatas) ==
    IF Cardinality(Range(ids)) # Len(ids) THEN coll
    ELSE LET have == {coll[i].id : i \in 1..Len(coll)}
             new == [i \in 1..Len(documents) |->
                        [id |-> ids[i], text |-> documents[i], meta |-> metadatas[i]]]
         IN coll \o SelectSeq(new, LAMBDA d : d.id \notin have)

\* [str(uuid.uuid4()) for _ in docs]: one new identifier per document. uuid4
\* is modelled as a source of identifiers never handed out before.
NewIdsShared(ctr, docs) == [i \in 1..Len(docs) |-> ctr + 1]

NewIds(ctr, docs) == [i \in 1..Len(docs) |-> ctr + i]

\* ingest_documents(docs)
ingest_documents(docs) ==
    /\ collection' = CollectionAdd(collection, docs, NewIds(uuidCtr, docs),
                                   [i \in 1..Len(docs) |-> <<>>])
    /\ uuidCtr' = uuidCtr + Len(docs)

\* internal_search_tool(query, top_k): the hits of zip(ids, documents,
\* distances), numbered from 1.
SearchRankFromZero(coll, query, top_k) ==
    LET res == CollectionQuery(coll, query, top_k)
        n == Min(Len(res.ids), Min(Len(res.documents), Len(res.distances)))
    IN [i \in 1..n |-> [rank |-> i - 1, id |-> res.ids[i],
                        text |-> res.documents[i], score |-> res.distances[i]]]

internal_search_tool(coll, query, top_k) ==
    LET res == CollectionQuery(coll, query, top_k)
        n == Min(Len(res.ids), Min(Len(res.documents), Len(res.distances)))
    IN [i \in 1..n |-> [rank |-> i, id |-> res.ids[i],
                        text |-> res.documents[i], score |-> res.distances[i]]]

NoOp == [name |-> "none", docs |-> <<>>, query |-> 0, top_k |-> 0, before |-> 0]

\* Collections an earlier run of the script may have left on disk.
StoredCollections ==
    {[i \in 1..Len(ts) |-> [id |-> i, text |-> ts[i], meta |-> <<>>]] :
        ts \in SeqsUpTo(Texts, 2)}


\* ------------------------------------------------------------- messages
Text(t) == [kind |-> "text", text |-> t, hits |-> <<>>]

NoneContent == [kind |-> "none", text |-> <<>>, hits |-> <<>>]

\* json.dumps(result, ensure_ascii=False): the serialized hit list
json_dumps(result) == [kind |-> "json", text |-> <<>>, hits |-> result]

NoMsg == [role |-> "none", content |-> NoneContent, tool_calls |-> <<>>,
          tool_call_id |-> 0, name |-> "none"]

\* {"role": "user", "content": query}
UserMsg(query) == [NoMsg EXCEPT !.role = "user", !.content = Text(query)]

\* {"role": "assistant", "content": msg.content}
AssistantMsg(content) == [NoMsg EXCEPT !.role = "assistant", !.content = content]

\* {"role": "tool", "tool_call_id": call.id, "name": call.name, "content": ...}
ToolMsg(call, result) ==
    [NoMsg EXCEPT !.role = "tool", !.tool_call_id = call.id, !.name = call.name,
                  !.content = json_dumps(result)]

\* ------------------------------------------------------------ the REPL's input
Whitespace == {" ", "\t"}

RECURSIVE lstrip(_)
lstrip(s) == IF s # <<>> /\ Head(s) \in Whitespace THEN lstrip(Tail(s)) ELSE s

RECURSIVE rstrip(_)
rstrip(s) ==
    IF s # <<>> /\ s[Len(s)] \in Whitespace THEN rstrip(SubSeq(s, 1, Len(s) - 1)) ELSE s

\* str.strip() left out: the line is used as typed
StripNothing(s) == s

\* input("> ").strip()
strip(s) == rstrip(lstrip(s))

\* Lines a user may type: characters, in order.
Lines == {<<>>, <<" ", "\t">>, <<"x">>, <<" ", "x", " ">>, <<"x", " ", "y">>}

\* ------------------------------------------------- what the model may answer
Absent == 0     \* marks an argument the model left out

\* Arguments the model passes to internal_search: query, and top_k or not.
CallArgs == {[query |-> 0, top_k |-> Absent], [query |-> 1, top_k |-> 1]}

CallKinds ==
    {[name |-> "internal_search", arguments |-> a] : a \in CallArgs}
        \cup {[name |-> "web_search", arguments |-> [query |-> 0, top_k |-> Absent]]}

RECURSIVE CallsIn(_)
CallsIn(h) == IF h = <<>> THEN 0 ELSE Len(Head(h).tool_calls) + CallsIn(Tail(h))

\* The messages a completion may carry after history h: tool calls (with or
\* without text beside them), a tool-role message, or a plain answer.
Responses(h) ==
    LET room == MaxCalls - CallsIn(h)
        calls == UNION {[1..n -> CallKinds] : n \in 1..room}
        withIds(cs) == [i \in 1..Len(cs) |->
                          [id |-> CallsIn(h) + i, name |-> cs[i].name,
                           arguments |-> cs[i].arguments]]
    IN {[NoMsg EXCEPT !.role = "assistant", !.tool_calls = withIds(cs)] : cs \in calls}
       \cup {[NoMsg EXCEPT !.role = "tool", !.content = Text(<<"w">>)]}
       \cup {[NoMsg EXCEPT !.role = "assistant", !.content = c] :
                c \in {Text(<<"a">>), NoneContent}}

\* ------------------------------------------------------------- tool dispatch
\* chat's test of a requested call: only internal_search is run locally
IsLocalAny(call) == TRUE

IsLocal(call) == call.name = "internal_search"

\* dispatch_tool_call(call): the hits, and how many index queries it made
dispatch_tool_call(call) ==
    IF call.name = "internal_search"
    THEN [result |-> internal_search_tool(
                        collection, call.arguments.query,
                        IF call.arguments.top_k = Absent THEN DefaultTopK
                        ELSE call.arguments.top_k),
          queried |-> 1]
    ELSE [result |-> <<>>, queried |-> 0]

\* ------------------------------------------------------------------ chat
\* history = history or []; history.append({"role": "user", "content": query})
chat_enter(query, hist) == Append(hist, UserMsg(query))

\* The branch chat takes on a message: run its tools, keep a tool message,
\* or return.
BranchNoToolRole(m) == IF m.tool_calls # <<>> THEN "tools" ELSE "final"

Branch(m) ==
    IF m.tool_calls # <<>> THEN "tools"
    ELSE IF m.role = "tool" THEN "tool_msg"
    ELSE "final"

\* history after the final answer: history.append({"role": "assistant", ...})
FinalHistoryReplaced(h, m) == <<AssistantMsg(m.content)>>

FinalHistory(h, m) == Append(h, AssistantMsg(m.content))

InChat == pc \in {"chat", "tools"}

\* client.chat.completions.create(...) answers, and chat branches on the message
ChatRequest ==
    \E m \in Responses(history) :
        /\ pc = "chat"
        /\ requests < MaxResponses
        /\ requests' = requests + 1
        /\ msg' = m
        /\ CASE Branch(m) = "tools" ->
                  /\ history' = Append(history, m)
                  /\ callIdx' = 1
                  /\ pc' = "tools"
                  /\ UNCHANGED answer
             [] Branch(m) = "tool_msg" ->
                  /\ history' = Append(history, m)
                  /\ pc' = "chat"
                  /\ UNCHANGED <<callIdx, answer>>
             [] OTHER ->
                  /\ history' = FinalHistory(history, m)
                  /\ answer' = m.content
                  /\ pc' = "print"
                  /\ UNCHANGED callIdx
        /\ UNCHANGED <<apiKey, clientCreated, exc, queries, chatCalls, linesRead,
                       line, indexVars, emailVars>>

\* client.chat.completions.create(...) raises: nothing in chat or the REPL
\* catches it
ChatRequestRetried ==
    /\ pc = "chat"
    /\ requests < MaxResponses
    /\ requests' = requests + 1
    /\ UNCHANGED <<pc, exc, apiKey, clientCreated, history, msg, callIdx, answer,
                   queries, chatCalls, linesRead, line, indexVars, emailVars>>

ChatRequestRaises ==
    /\ pc = "chat"
    /\ requests < MaxResponses
    /\ requests' = requests + 1
    /\ exc' = "APIError"
    /\ pc' = "crashed"
    /\ UNCHANGED <<apiKey, clientCreated, history, msg, callIdx, answer, queries,
                   chatCalls, linesRead, line, indexVars, emailVars>>

\* One round of `for call in msg.tool_calls`; after the last call, `continue`.
ChatToolCall ==
    /\ pc = "tools"
    /\ LET call == msg.tool_calls[callIdx]
           last == callIdx = Len(msg.tool_calls)
           done == dispatch_tool_call(call)
       IN IF IsLocal(call)
          THEN /\ queries' = queries + done.queried
               /\ history' = Append(history, ToolMsg(call, done.result))
               /\ callIdx' = IF last THEN 0 ELSE callIdx + 1
               /\ pc' = IF last THEN "chat" ELSE "tools"
          ELSE /\ callIdx' = IF last THEN 0 ELSE callIdx + 1
               /\ pc' = IF last THEN "chat" ELSE "tools"
               /\ UNCHANGED <<queries, history>>
    /\ UNCHANGED <<apiKey, clientCreated, msg, answer, exc, requests, chatCalls,
                   linesRead, line, indexVars, emailVars>>

\* collection.query raises inside internal_search_tool: nothing catches it
ChatQueryRaises ==
    /\ pc = "tools"
    /\ IsLocal(msg.tool_calls[callIdx])
    /\ dispatch_tool_call(msg.tool_calls[callIdx]).queried = 1
    /\ queries' = queries + 1
    /\ exc' = "ChromaError"
    /\ pc' = "crashed"
    /\ UNCHANGED <<apiKey, clientCreated, history, msg, callIdx, answer, requests,
                   chatCalls, linesRead, line, indexVars, emailVars>>

\* ------------------------------------------------------- start-up and REPL
sample_docs == <<0, 1>>

\* load_dotenv(); the OPENAI_API_KEY check; client = OpenAI()
Boot ==
    /\ pc = "boot"
    /\ IF apiKey
       THEN /\ clientCreated' = TRUE
            /\ pc' = "main"
            /\ UNCHANGED exc
       ELSE /\ exc' = "RuntimeError"
            /\ pc' = "crashed"
            /\ UNCHANGED clientCreated
    /\ UNCHANGED <<apiKey, history, msg, callIdx, answer, requests, queries,
                   chatCalls, linesRead, line, indexVars, emailVars>>

\* __main__: index the sample documents if the collection is empty
Main ==
    /\ pc = "main"
    /\ IF Len(collection) = 0
       THEN ingest_documents(sample_docs)
       ELSE UNCHANGED <<collection, uuidCtr>>
    /\ pc' = "input"
    /\ UNCHANGED <<apiKey, clientCreated, history, msg, callIdx, answer, exc,
                   requests, queries, chatCalls, linesRead, line, op, hits,
                   emailVars>>

\* user_q = input("> ").strip(); a blank line loops, any other calls chat(user_q)
ReadLine ==
    \E ln \in Lines :
        /\ pc = "input"
        /\ linesRead < MaxLines
        /\ linesRead' = linesRead + 1
        /\ line' = ln
        /\ IF strip(ln) = <<>>
           THEN UNCHANGED <<pc, history, msg, callIdx, requests, queries, chatCalls>>
           ELSE /\ chatCalls' = chatCalls + 1
                /\ history' = chat_enter(strip(ln), <<>>)
                /\ msg' = NoMsg
                /\ callIdx' = 0
                /\ requests' = 0
                /\ queries' = 0
                /\ pc' = "chat"
        /\ UNCHANGED <<apiKey, clientCreated, answer, exc, indexVars, emailVars>>

\* print(answer): chat's frame, and its history list with it, is gone
PrintAnswer ==
    /\ pc = "print"
    /\ pc' = "input"
    /\ history' = <<>>
    /\ msg' = NoMsg
    /\ UNCHANGED <<apiKey, clientCreated, callIdx, answer, exc, requests, queries,
                   chatCalls, linesRead, line, indexVars, emailVars>>

\* input() meets the end of standard input: EOFError, which nothing catches
InputEOF ==
    /\ pc = "input"
    /\ exc' = "EOFError"
    /\ pc' = "crashed"
    /\ UNCHANGED <<apiKey, clientCreated, history, msg, callIdx, answer, requests,
                   queries, chatCalls, linesRead, line, indexVars, emailVars>>

\* Ctrl-C anywhere inside the try block: except KeyboardInterrupt
Interrupt ==
    /\ pc \in {"input", "chat", "tools", "print"}
    /\ pc' = "exited"
    /\ UNCHANGED <<apiKey, clientCreated, history, msg, callIdx, answer, exc,
                   requests, queries, chatCalls, linesRead, line, indexVars, emailVars>>

\* ------------------------------------------------ agentic_sales_email.py
NoMessage == "<no message>"

sender_email == "SENDER_EMAIL"

receiver_email == "RECEIVER_EMAIL"

NoMail == [from |-> "none", to |-> "none", subject |-> "none", content |-> "none"]

\* How one send_html_email call can go: nothing raises, or the client's
\* construction, the mail's building or the post raises an exception.
Outcomes ==
    {[stage |-> "ok", text |-> NoMessage],
     [stage |-> "client", text |-> "invalid api key"],
     [stage |-> "mail", text |-> "invalid address"],
     [stage |-> "post", text |-> "HTTP Error 401: Unauthorized"],
     [stage |-> "post", text |-> "HTTP Error 403: Forbidden"]}

\* str(e)
str(e) == e.text

\* sg.client.mail.send.post(request_body=mail): how many times the call posts
PostsMadeRetrying(o) ==
    IF o.stage = "ok" THEN 1 ELSE IF o.stage = "post" THEN 2 ELSE 0

PostsMade(o) == IF o.stage \in {"ok", "post"} THEN 1 ELSE 0

\* The try body of send_html_email: it returns, or an exception leaves it.
TryBody(o) ==
    IF o.stage = "ok"
    THEN [kind |-> "return", value |-> [status |-> "success", message |-> NoMessage]]
    ELSE [kind |-> "raise", value |-> [status |-> "raised", message |-> str(o)]]

\* an except clause that names only the post's error
SendNarrowExcept(o) ==
    IF TryBody(o).kind = "raise" /\ o.stage = "post"
    THEN [kind |-> "return", value |-> [status |-> "error", message |-> str(o)]]
    ELSE TryBody(o)

\* send_html_email(subject, html_body): try ... except Exception as e
send_html_email(o) ==
    IF TryBody(o).kind = "raise"
    THEN [kind |-> "return", value |-> [status |-> "error", message |-> str(o)]]
    ELSE TryBody(o)

DraftTools == {"prof_sales_agent", "witty_sales_agent", "busy_sales_agent"}

\* tools= of the two agents
ToolsSendEverywhere(a) ==
    IF a = "Sales Manager" THEN DraftTools \cup {"send_html_email"}
    ELSE IF a = "Email Manager"
    THEN {"subject_writer", "html_converter", "send_html_email"}
    ELSE {}

Tools(a) ==
    IF a = "Sales Manager" THEN DraftTools
    ELSE IF a = "Email Manager"
    THEN {"subject_writer", "html_converter", "send_html_email"}
    ELSE {}

\* handoffs= of the two agents
Handoffs(a) == IF a = "Sales Manager" THEN {"Email Manager"} ELSE {}

Subjects == {"subject"}

Bodies == {"<p>body</p>"}

\* The running agent's model calls one of the agent's tools.
CallTool ==
    \E t \in Tools(agent), o \in Outcomes, subject \in Subjects, html_body \in Bodies :
        /\ pc = "run"
        /\ steps < MaxSteps
        /\ steps' = steps + 1
        /\ t # "send_html_email" => o.stage = "ok"
        /\ drafts' = IF t \in DraftTools THEN drafts \cup {t} ELSE drafts
        /\ subjects' = IF t = "subject_writer" THEN subjects + 1 ELSE subjects
        /\ htmls' = IF t = "html_converter" THEN htmls + 1 ELSE htmls
        /\ IF t = "send_html_email"
           THEN /\ sendCalls' = sendCalls + 1
                /\ outcome' = o
                /\ posts' = posts + PostsMade(o)
                /\ mail' = IF PostsMade(o) > 0
                           THEN [from |-> sender_email, to |-> receiver_email,
                                 subject |-> subject, content |-> html_body]
                           ELSE mail
                /\ IF send_html_email(o).kind = "raise"
                   THEN /\ pc' = "failed"
                        /\ UNCHANGED sendResult
                   ELSE /\ sendResult' = send_html_email(o).value
                        /\ UNCHANGED pc
           ELSE UNCHANGED <<sendCalls, outcome, posts, mail, sendResult, pc>>
        /\ UNCHANGED <<agent, handedOff, apiKey, clientCreated, history, msg,
                       callIdx, answer, exc, requests, queries, chatCalls,
                       linesRead, line, indexVars>>

\* The running agent's model hands off to an agent of handoffs=.
Handoff ==
    \E target \in Handoffs(agent) :
        /\ pc = "run"
        /\ agent' = target
        /\ handedOff' = TRUE
        /\ UNCHANGED <<drafts, subjects, htmls, sendCalls, posts, outcome,
                       sendResult, mail, steps, chatVars, indexVars>>

\* The running agent's model gives its final output: Runner.run returns.
Finish ==
    /\ pc = "run"
    /\ pc' = "done"
    /\ UNCHANGED <<apiKey, clientCreated, history, msg, callIdx, answer, exc,
                   requests, queries, chatCalls, linesRead, line, indexVars, emailVars>>

EmailIdle ==
    /\ agent = "none" /\ drafts = {} /\ handedOff = FALSE /\ subjects = 0
    /\ htmls = 0 /\ sendCalls = 0 /\ posts = 0
    /\ outcome = [stage |-> "none", text |-> NoMessage]
    /\ sendResult = [status |-> "none", message |-> NoMessage]
    /\ mail = NoMail /\ steps = 0

ChatIdle ==
    /\ apiKey = TRUE /\ clientCreated = FALSE /\ history = <<>> /\ msg = NoMsg
    /\ callIdx = 0 /\ answer = NoneContent /\ exc = "none" /\ requests = 0
    /\ queries = 0 /\ chatCalls = 0 /\ linesRead = 0 /\ line = <<>>

\* ---------------------------------------------- the index, driven directly
InitIndex ==
    /\ pc = "index"
    /\ collection \in StoredCollections
    /\ uuidCtr = Len(collection)
    /\ op = NoOp
    /\ hits = <<>>
    /\ ChatIdle
    /\ EmailIdle

Ingest ==
    \E docs \in SeqsUpTo(Texts, MaxDocs) :
        /\ pc = "index"
        /\ Len(collection) + Len(docs) <= MaxColl
        /\ ingest_documents(docs)
        /\ op' = [NoOp EXCEPT !.name = "ingest", !.docs = docs,
                              !.before = Len(collection)]
        /\ UNCHANGED <<hits, chatVars, emailVars>>

Search ==
    \E query \in Texts, top_k \in 1..MaxTopK :
        /\ pc = "index"
        /\ hits' = internal_search_tool(collection, query, top_k)
        /\ op' = [NoOp EXCEPT !.name = "search", !.query = query,
                              !.top_k = top_k, !.before = Len(collection)]
        /\ UNCHANGED <<collection, uuidCtr, chatVars, emailVars>>

NextIndex == Ingest \/ Search

SpecIndex == InitIndex /\ [][NextIndex]_vars

\* ------------------------------------------------ hybrid_search_agent.py run
\* A collection of three documents left by an earlier run.
Stored3 == [i \in 1..3 |-> [id |-> i, text |-> i - 1, meta |-> <<>>]]

Init ==
    /\ pc = "boot"
    /\ apiKey \in BOOLEAN
    /\ clientCreated = FALSE
    /\ collection \in {<<>>, Stored3}
    /\ uuidCtr = Len(collection)
    /\ op = NoOp
    /\ hits = <<>>
    /\ history = <<>> /\ msg = NoMsg /\ callIdx = 0 /\ answer = NoneContent
    /\ exc = "none" /\ requests = 0 /\ queries = 0 /\ chatCalls = 0
    /\ linesRead = 0 /\ line = <<>>
    /\ EmailIdle

Next ==
    \/ Boot
    \/ Main
    \/ ReadLine
    \/ ChatRequest
    \/ ChatRequestRaises
    \/ ChatToolCall
    \/ ChatQueryRaises
    \/ PrintAnswer
    \/ InputEOF
    \/ Interrupt

Spec == Init /\ [][Next]_vars

\* ------------------------------------------------ agentic_sales_email.py run
\* main(prompt): Runner.run(sales_manager, query)
InitEmail ==
    /\ pc = "run"
    /\ agent = "Sales Manager"
    /\ drafts = {} /\ handedOff = FALSE /\ subjects = 0 /\ htmls = 0
    /\ sendCalls = 0 /\ posts = 0
    /\ outcome = [stage |-> "none", text |-> NoMessage]
    /\ sendResult = [status |-> "none", message |-> NoMessage]
    /\ mail = NoMail /\ steps = 0
    /\ collection = <<>> /\ uuidCtr = 0 /\ op = NoOp /\ hits = <<>>
    /\ ChatIdle

NextEmail == CallTool \/ Handoff \/ Finish

SpecEmail == InitEmail /\ [][NextEmail]_vars

\* ================================================================ properties
IsPrefix(s, t) == Len(s) <= Len(t) /\ SubSeq(t, 1, Len(s)) = s

\* a completion request was answered with a message
Received == requests' = requests + 1 /\ exc' = exc

\* chat returned: the REPL is about to print its value
Returned == pc # "print" /\ pc' = "print"

\* one round of chat's loop over msg.tool_calls ran to its end
LoopRound == pc = "tools" /\ pc' \in {"tools", "chat"}

\* the hits internal_search returns for a requested call
ExpectedHits(call) ==
    internal_search_tool(collection, call.arguments.query,
                         IF call.arguments.top_k = Absent THEN DefaultTopK
                         ELSE call.arguments.top_k)

\* the tool message chat owes a requested internal_search call
ExpectedToolMsg(call) ==
    [role |-> "tool", content |-> json_dumps(ExpectedHits(call)), tool_calls |-> <<>>,
     tool_call_id |-> call.id, name |-> call.name]

\* the tool messages chat owes a response's calls: one per internal_search
\* call, in the order requested
ExpectedToolMsgs(calls) ==
    LET loc == SelectSeq(calls, LAMBDA c : c.name = "internal_search")
    IN [i \in 1..Len(loc) |-> ExpectedToolMsg(loc[i])]

\* ---------------------------------------------------------------------- C1
\* C1 as stated: chat returns exactly on the responses that carry no tool
\* calls, so at the first of them, and returns that response's content.
C1_ReturnsOnFirstResponseWithoutToolCalls ==
    [][/\ Received => (pc' = "print" <=> msg'.tool_calls = <<>>)
       /\ Received /\ pc' = "print" => answer' = msg'.content
       /\ Returned => Received]_vars

\* C1, amended: chat returns exactly on the responses that carry no tool calls
\* and are not tool-role messages, returning that response's content; it
\* never returns on a response that carries tool calls, and a tool-role
\* message without tool calls is kept in history and the loop goes on.
C1_ReturnsOnFirstPlainAnswer ==
    [][/\ Received =>
            (pc' = "print" <=> (msg'.tool_calls = <<>> /\ msg'.role # "tool"))
       /\ Received /\ pc' = "print" => answer' = msg'.content
       /\ Received /\ msg'.tool_calls = <<>> /\ msg'.role = "tool" =>
            pc' = "chat" /\ history' = Append(history, msg')
       /\ Returned => Received]_vars

\* chat has returned after a response with tool calls and a tool-role message
C1_Witness ==
    /\ pc = "print"
    /\ requests = 3
    /\ \E i \in 1..Len(history) : history[i].tool_calls # <<>>
    /\ \E i \in 1..Len(history) :
            history[i].role = "tool" /\ history[i].tool_call_id = 0

\* ---------------------------------------------------------------------- C3
\* C3: a response that requests tools is appended to history; then each call
\* is handled in order: an internal_search call runs one index query and
\* appends one tool message with the call's id and the serialized hits (if the
\* query raises, the query was made once and nothing is appended); any other
\* call changes neither history nor the query count; the next completion is
\* requested only when history ends with the response and the tool messages
\* of all its internal_search calls.
C3_ToolCallsHandledInOrder ==
    [][/\ Received /\ msg'.tool_calls # <<>> =>
            /\ history' = Append(history, msg')
            /\ pc' = "tools" /\ callIdx' = 1 /\ queries' = queries
       /\ LoopRound /\ msg.tool_calls[callIdx].name = "internal_search" =>
            /\ queries' = queries + 1
            /\ history' = Append(history, ExpectedToolMsg(msg.tool_calls[callIdx]))
       /\ LoopRound /\ msg.tool_calls[callIdx].name # "internal_search" =>
            UNCHANGED <<history, queries>>
       /\ LoopRound =>
            /\ msg' = msg
            /\ IF callIdx < Len(msg.tool_calls)
               THEN pc' = "tools" /\ callIdx' = callIdx + 1
               ELSE pc' = "chat"
       /\ pc = "tools" /\ pc' = "crashed" =>
            /\ msg.tool_calls[callIdx].name = "internal_search"
            /\ queries' = queries + 1 /\ history' = history
       /\ requests' = requests + 1 =>
            /\ pc = "chat"
            /\ msg.tool_calls # <<>> =>
                 LET owed == <<msg>> \o ExpectedToolMsgs(msg.tool_calls)
                 IN /\ Len(history) >= Len(owed)
                    /\ SubSeq(history, Len(history) - Len(owed) + 1, Len(history)) = owed
                    /\ queries >= Len(owed) - 1]_vars

\* a response asked for the hosted tool and then the local one; both are done
C3_Witness ==
    /\ pc = "chat"
    /\ Len(msg.tool_calls) = 2
    /\ msg.tool_calls[1].name = "web_search"
    /\ msg.tool_calls[2].name = "internal_search"
    /\ queries = 1
    /\ history[Len(history)].role = "tool"
    /\ history[Len(history)].content.hits # <<>>

\* ---------------------------------------------------------------------- C6
\* C6: during a chat call every step leaves history as it is or appends to
\* it; the call starts by appending the user message with the query, and
\* when it returns the last entry is the assistant message holding the
\* returned text.
C6_HistoryAppendOnly ==
    [][/\ InChat => IsPrefix(history, history')
       /\ pc = "input" /\ pc' = "chat" =>
            /\ history' = Append(history, UserMsg(history'[Len(history')].content.text))
            /\ history'[Len(history')].content.text # <<>>
       /\ pc = "chat" => Len(history) >= 1 /\ history[1].role = "user"
       /\ Returned =>
            /\ Len(history') = Len(history) + 1
            /\ history'[Len(history')] = AssistantMsg(answer')]_vars

\* chat returned after tool messages were appended
C6_Witness ==
    /\ pc = "print"
    /\ Len(history) >= 5
    /\ history[1].role = "user"
    /\ history[Len(history)].role = "assistant"

\* ---------------------------------------------------------------------- C9
\* C9: a completion request that yields no message, or an index query that
\* raises, ends the process with that exception: it is not retried and
\* nothing runs afterwards; without the API key the script ends with
\* RuntimeError before the client exists and before any request, query or
\* chat call.
C9_FailuresEndTheProcess ==
    /\ [](~apiKey => ~clientCreated /\ pc \in {"boot", "crashed"})
    /\ [](pc = "crashed" /\ exc = "RuntimeError" =>
            ~apiKey /\ ~clientCreated /\ requests = 0 /\ queries = 0
            /\ chatCalls = 0 /\ linesRead = 0)
    /\ [](pc = "crashed" <=> exc # "none")
    /\ [][/\ requests' = requests + 1 /\ history' = history =>
               pc' = "crashed" /\ exc' = "APIError"
          /\ queries' = queries + 1 /\ history' = history =>
               pc' = "crashed" /\ exc' = "ChromaError"
          /\ pc = "crashed" => FALSE]_vars

\* the second completion request of a chat call that had queried the index
\* raised
C9_Witness ==
    /\ pc = "crashed"
    /\ exc = "APIError"
    /\ requests = 2
    /\ queries = 1

\* --------------------------------------------------------------------- C10
IsBlank(l) == \A i \in 1..Len(l) : l[i] \in Whitespace

\* t is l without the whitespace at its two ends
IsStripped(t, l) ==
    /\ t # <<>> /\ t[1] \notin Whitespace /\ t[Len(t)] \notin Whitespace
    /\ \E a \in 1..Len(l) :
          /\ a + Len(t) - 1 <= Len(l)
          /\ SubSeq(l, a, a + Len(t) - 1) = t
          /\ IsBlank(SubSeq(l, 1, a - 1))
          /\ IsBlank(SubSeq(l, a + Len(t), Len(l)))

InRepl == pc \in {"input", "chat", "tools", "print"}

\* what C10 says of the lines read
C10_Lines ==
    /\ linesRead' = linesRead + 1 /\ IsBlank(line') =>
          UNCHANGED <<pc, chatCalls, requests, queries, history>>
    /\ linesRead' = linesRead + 1 /\ ~IsBlank(line') =>
          /\ chatCalls' = chatCalls + 1
          /\ pc' = "chat"
          /\ Len(history') = 1
          /\ history'[1] = UserMsg(history'[1].content.text)
          /\ IsStripped(history'[1].content.text, line')
    /\ chatCalls' # chatCalls => linesRead' = linesRead + 1
    /\ requests' = requests + 1 \/ queries' = queries + 1 => InChat

\* C10 as stated: a non-blank line starts one chat call on a history holding
\* only that line's user message, a blank line starts no chat call and makes
\* no request, and the loop ends only on keyboard interruption.
C10_LoopEndsOnlyOnInterrupt ==
    [][/\ C10_Lines
       /\ InRepl /\ ~InRepl' => pc' = "exited" /\ exc' = "none"]_vars

\* C10, amended: as stated, except that the loop ends on keyboard
\* interruption or when an exception propagates out of it: the end of
\* standard input, a failed completion request or a failed index query.
C10_LoopEndsOnInterruptOrException ==
    [][/\ C10_Lines
       /\ InRepl /\ ~InRepl' =>
            \/ pc' = "exited" /\ exc' = "none"
            \/ pc' = "crashed" /\ exc' \in {"EOFError", "APIError", "ChromaError"}]_vars

\* the second non-blank line has just started its chat call
C10_Witness ==
    /\ pc = "chat"
    /\ linesRead = 2
    /\ chatCalls = 2
    /\ line = <<" ", "x", " ">>
    /\ history = <<UserMsg(<<"x">>)>>

\* ---------------------------------------------------------------------- C7
\* C7: a search of a collection of N documents returns min(N, top_k) hits,
\* each with exactly a rank, an id, a text and a score, ranked 1, 2, ... in
\* list order, with scores that never decrease along the list.
C7_SearchReturnsRankedHits ==
    op.name = "search" =>
        /\ Len(hits) = Min(Len(collection), op.top_k)
        /\ Len(hits) <= op.top_k
        /\ \A i \in 1..Len(hits) :
              /\ DOMAIN hits[i] = {"rank", "id", "text", "score"}
              /\ hits[i].rank = i
              /\ \E j \in 1..Len(collection) :
                    /\ collection[j].id = hits[i].id
                    /\ collection[j].text = hits[i].text
                    /\ Distance(op.query, collection[j].text) = hits[i].score
        /\ \A i \in 1..Len(hits) - 1 : hits[i].score <= hits[i + 1].score

\* a search cut to top_k whose hits are at different distances
C7_Witness ==
    /\ op.name = "search"
    /\ Len(collection) > op.top_k
    /\ Len(hits) = 2
    /\ hits[1].score < hits[2].score
    /\ hits[1].id > hits[2].id

\* ---------------------------------------------------------------------- C8
CollectionIds == {collection[i].id : i \in 1..Len(collection)}

\* C8: an ingest of K documents raises the count by K, storing the documents
\* with an empty metadata map; identifiers stay pairwise distinct; and over
\* any sequence of ingests the count is the count at the start plus the
\* number of documents ingested (one identifier was generated for each).
C8_IngestAddsExactlyK ==
    /\ Cardinality(CollectionIds) = Len(collection)
    /\ Len(collection) = uuidCtr
    /\ op.name = "ingest" =>
          /\ Len(collection) = op.before + Len(op.docs)
          /\ \A i \in 1..Len(op.docs) :
                /\ collection[op.before + i].text = op.docs[i]
                /\ collection[op.before + i].meta = <<>>

\* two documents were ingested into a collection that held some
C8_Witness ==
    /\ op.name = "ingest"
    /\ Len(op.docs) = 2
    /\ op.docs[1] = op.docs[2]
    /\ op.before >= 1

\* ---------------------------------------------------------------------- C2
\* C2: send_html_email never lets an exception out: when the client's
\* construction, the mail's building or the post raises, it returns status
\* "error" with the exception's text as message, and when nothing raises it
\* returns status "success".
C2_SendReturnsStatus ==
    /\ pc # "failed"
    /\ sendCalls > 0 =>
          /\ outcome.stage = "ok" =>
                sendResult = [status |-> "success", message |-> NoMessage]
          /\ outcome.stage \in {"client", "mail", "post"} =>
                sendResult = [status |-> "error", message |-> outcome.text]

\* the mail could not be built and the caller got an error status
C2_Witness ==
    /\ sendCalls > 0
    /\ outcome.stage = "mail"
    /\ sendResult = [status |-> "error", message |-> "invalid address"]
    /\ pc = "run"

\* ---------------------------------------------------------------------- C4
AllDrafts == drafts = DraftTools

\* C4 as stated, in the case most favourable to it: in a finished run whose
\* models did as instructed (three drafts, the handoff, one subject, one HTML
\* body, one call of the send tool) the endpoint was posted to exactly once.
C4_ExactlyOnePostPerRun ==
    pc = "done" /\ AllDrafts /\ handedOff /\ subjects = 1 /\ htmls = 1
        /\ sendCalls = 1 => posts = 1

\* C4, amended: each call of send_html_email posts to the endpoint at most
\* once, exactly once unless the client's construction or the mail's building
\* raised first, and only such a call posts: a failed send is not retried by
\* the tool. Every posted mail goes from the configured sender to the
\* configured recipient. How often the tool is called is the Email
\* Manager model's choice.
C4_AtMostOnePostPerCall ==
    /\ [](posts <= sendCalls)
    /\ [](posts > 0 => mail.from = sender_email /\ mail.to = receiver_email)
    /\ [][/\ sendCalls' = sendCalls + 1 =>
               posts' = posts + (IF outcome'.stage \in {"ok", "post"} THEN 1 ELSE 0)
          /\ posts' # posts => sendCalls' = sendCalls + 1]_vars

\* a send whose post failed, after one that never reached the post
C4_Witness ==
    /\ sendCalls = 2
    /\ posts = 1
    /\ outcome.stage = "post"
    /\ sendResult.status = "error"

\* ---------------------------------------------------------------------- C5
\* C5 as stated: a mail is posted only after the three draft tools have each
\* produced a body, the handoff has happened, and a subject and an HTML body
\* have been generated.
C5_SendOnlyAfterDraftsSubjectAndHtml ==
    posts > 0 => AllDrafts /\ handedOff /\ subjects >= 1 /\ htmls >= 1

\* C5, amended: a mail is posted only after the handoff to the Email Manager,
\* and by the Email Manager: the Sales Manager has no send tool. That three
\* drafts precede the handoff, and a subject and an HTML body the send, is
\* asked of the models by their instructions and not enforced.
C5_SendOnlyAfterHandoff ==
    /\ sendCalls > 0 => handedOff /\ agent = "Email Manager"
    /\ posts > 0 => handedOff /\ agent = "Email Manager"
    /\ agent = "Sales Manager" => subjects = 0 /\ htmls = 0 /\ ~handedOff
    /\ handedOff <=> agent = "Email Manager"

\* the run the instructions describe: three drafts, the handoff, a subject,
\* an HTML body, then the post
C5_Witness ==
    /\ posts = 1
    /\ AllDrafts
    /\ handedOff
    /\ subjects = 1
    /\ htmls = 1
    /\ sendCalls = 1
    /\ sendResult.status = "success"

====
